---- MODULE Spec2Model ----
(***************************************************************************)
(* The naive reduce-dim strategy instantiated with Argmax                  *)
(* (crates/burn-jit/src/kernel/reduce/naive/argmax.rs): one worker per     *)
(* output position, each scanning its slice of the input sequentially.     *)
(*                                                                         *)
(* The full event processor of the training loop                           *)
(* (burn-train/src/metric/processor/full.rs): metrics updated and cleared  *)
(* per phase, the renderer and the event store client called in turn.      *)
(***************************************************************************)
EXTENDS Integers, Sequences, FiniteSets, TLC

VARIABLES EI, EO, shape_reduce_dim, input, output, pc, accumulator, i,
          writers, trace, last,
          train, valid, train_numeric, valid_numeric, event, calls, since

\* The state of a reduce request.
kernelVars == <<EI, EO, shape_reduce_dim, input, output, pc, accumulator, i,
                writers, trace, last>>

\* The state of the event processor.
processorVars ==
    <<train, valid, train_numeric, valid_numeric, event, calls, since>>

vars == <<EI, EO, shape_reduce_dim, input, output, pc, accumulator, i,
          writers, trace, last,
          train, valid, train_numeric, valid_numeric, event, calls, since>>

(* ----------------------------- bounds --------------------------------- *)

\* Largest number of input elements (workers * shape_reduce_dim) explored.
MaxCells == 4

\* Largest number of workers (output positions) explored.
MaxWorkers == 2

\* Finite element values are sampled from -MaxMag .. MaxMag.
MaxMag == 1

\* Largest number of metrics registered in one event processor.
MaxMetrics == 3

\* Item payloads are sampled from 1 .. MaxItem.
MaxItem == 2

\* Largest number of items processed in one phase between two epoch ends.
MaxBatch == 2

\* Epoch numbers are sampled from 0 .. MaxEpoch.
MaxEpoch == 1

(* ------------------------- element types ------------------------------ *)

\* The input element types EI the kernel is instantiated with: a signed
\* integer type and a floating-point type.
InTypes == {"int", "float"}

\* Codes of the non-finite values of the floating-point type.
NegInf == -(MaxMag + 1)
NaN == MaxMag + 2

\* Takes zero for the lowest value of the type.
min_value_zero(t) == 0

\* Numeric::min_value(): the lowest finite value of the type.  For the
\* floating-point type this is the most negative FINITE value, not
\* negative infinity.
min_value(t) == IF t = "float" THEN -MaxMag ELSE -(MaxMag + 1)

\* The sampled finite values of element type t.  Two's complement integers
\* reach one further below zero than above.
FiniteValues(t) ==
    IF t = "float" THEN -MaxMag .. MaxMag ELSE (-(MaxMag + 1)) .. MaxMag

\* The sampled values of element type t: floats add -infinity and NaN.
Values(t) ==
    IF t = "float" THEN FiniteValues(t) \cup {NegInf, NaN} ELSE FiniteValues(t)

\* `a > b` on element values: false whenever an operand is NaN.
Gt(a, b) == a # NaN /\ b # NaN /\ a > b

\* `a <= b` on element values: false whenever an operand is NaN.
Le(a, b) == a # NaN /\ b # NaN /\ a <= b

\* The integer output element types EO: signedness and width in bits.
OutTypes ==
    { [signed |-> TRUE, bits |-> 8], [signed |-> FALSE, bits |-> 8],
      [signed |-> TRUE, bits |-> 16] }

\* The values an output element of type t can hold.
MinOut(t) == IF t.signed THEN -(2 ^ (t.bits - 1)) ELSE 0
MaxOut(t) == IF t.signed THEN 2 ^ (t.bits - 1) - 1 ELSE 2 ^ t.bits - 1

\* A cast that reads the low bits as signed whatever the target type is.
cast_from_signed_only(t, x) ==
    LET m == x % (2 ^ t.bits)
    IN IF m >= 2 ^ (t.bits - 1) THEN m - 2 ^ t.bits ELSE m

\* EO::cast_from(index): u32 -> EO keeps the low bits of the index and
\* reads them in the target's signedness.
cast_from(t, x) ==
    LET m == x % (2 ^ t.bits)
    IN IF t.signed /\ m >= 2 ^ (t.bits - 1) THEN m - 2 ^ t.bits ELSE m

(* --------------------------- Argmax ----------------------------------- *)

\* Seeds the index with 1 instead of 0.
initialize_naive_index_one(t) == <<min_value(t), 1>>

\* fn initialize_naive() -> (EI, u32)
initialize_naive(t) == <<min_value(t), 0>>

\* Replaces the accumulator on equality as well.
inner_loop_naive_ge(acc, current_value, idx) ==
    IF Gt(current_value, acc[1]) \/ current_value = acc[1]
    THEN <<current_value, idx>>
    ELSE acc

\* fn inner_loop_naive(accumulator, current_value, i)
inner_loop_naive(acc, current_value, idx) ==
    IF Gt(current_value, acc[1])
    THEN <<current_value, idx>>
    ELSE acc

\* Each output cell keeps the values written to it, oldest first; the
\* cell's content is the last of them.
Write(out, pos, v) == [out EXCEPT ![pos] = Append(@, v)]

\* Writes at position 0 whatever the worker's position is.
assign_naive_pos_zero(out, acc, srd, absolute_pos, t) ==
    Write(out, 0, cast_from(t, acc[2]))

\* Writes the index offset by the size of the reduce dimension.
assign_naive_plus_dim(out, acc, srd, absolute_pos, t) ==
    Write(out, absolute_pos, cast_from(t, acc[2] + srd))

\* fn assign_naive<EO>(output, accumulator, _shape_reduce_dim)
assign_naive(out, acc, srd, absolute_pos, t) ==
    Write(out, absolute_pos, cast_from(t, acc[2]))

(* ----------------------- the naive strategy --------------------------- *)

NoProcessorEvent ==
    [phase |-> "none", kind |-> "none", item |-> <<>>, epoch |-> 0]

\* No event processor takes part in a reduce request.
NoProcessor ==
    /\ train = <<>>
    /\ valid = <<>>
    /\ train_numeric = <<>>
    /\ valid_numeric = <<>>
    /\ event = NoProcessorEvent
    /\ calls = <<>>
    /\ since = [train |-> <<>>, valid |-> <<>>]

Workers == DOMAIN pc

\* ABSOLUTE_POS of worker w: its own linear index.
ABSOLUTE_POS(w) == w

NoAccumulator == <<>>

NoEvent ==
    [op |-> "none", w |-> 0, before |-> <<>>, value |-> 0, i |-> 0, srd |-> 0]

\* The tensors of a launch: nw output positions, each reducing d elements.
Launch(nw, d, rows) ==
    /\ shape_reduce_dim = d
    /\ input = rows
    /\ output = [w \in 0 .. nw - 1 |-> <<>>]
    /\ pc = [w \in 0 .. nw - 1 |-> "start"]
    /\ accumulator = [w \in 0 .. nw - 1 |-> NoAccumulator]
    /\ i = [w \in 0 .. nw - 1 |-> 0]
    /\ writers = [w \in 0 .. nw - 1 |-> {}]
    /\ trace = [w \in 0 .. nw - 1 |-> <<>>]
    /\ last = NoEvent

Init ==
    /\ EI \in InTypes
    /\ EO \in OutTypes
    /\ \E nw \in 1 .. MaxWorkers, d \in 0 .. MaxCells :
          /\ nw * d <= MaxCells
          /\ \E rows \in [0 .. nw - 1 -> [1 .. d -> Values(EI)]] :
                Launch(nw, d, rows)
    /\ NoProcessor

\* let mut accumulator = initialize_naive();
Initialize(w) ==
    /\ pc[w] = "start"
    /\ accumulator' = [accumulator EXCEPT ![w] = initialize_naive(EI)]
    /\ i' = [i EXCEPT ![w] = 0]
    /\ pc' = [pc EXCEPT ![w] = "loop"]
    /\ trace' = [trace EXCEPT ![w] = Append(@, <<"initialize">>)]
    /\ last' = [op |-> "initialize", w |-> w, before |-> accumulator[w],
                value |-> 0, i |-> 0, srd |-> 0]
    /\ UNCHANGED <<EI, EO, shape_reduce_dim, input, output, writers>>
    /\ UNCHANGED processorVars

\* A step that overwrites the element it has read.
Step_consume(w) ==
    /\ pc[w] = "loop"
    /\ i[w] < shape_reduce_dim
    /\ LET current_value == input[w][i[w] + 1]
       IN /\ accumulator' = [accumulator EXCEPT
                               ![w] = inner_loop_naive(@, current_value, i[w])]
          /\ last' = [op |-> "step", w |-> w, before |-> accumulator[w],
                      value |-> current_value, i |-> i[w], srd |-> 0]
    /\ input' = [input EXCEPT ![w][i[w] + 1] = min_value(EI)]
    /\ trace' = [trace EXCEPT ![w] = Append(@, <<"step", i[w]>>)]
    /\ i' = [i EXCEPT ![w] = @ + 1]
    /\ UNCHANGED <<EI, EO, shape_reduce_dim, output, pc, writers>>
    /\ UNCHANGED processorVars

\* for i in 0..shape_reduce_dim { inner_loop_naive(&mut accumulator, input[(p, i)], i) }
Step(w) ==
    /\ pc[w] = "loop"
    /\ i[w] < shape_reduce_dim
    /\ LET current_value == input[w][i[w] + 1]
       IN /\ accumulator' = [accumulator EXCEPT
                               ![w] = inner_loop_naive(@, current_value, i[w])]
          /\ last' = [op |-> "step", w |-> w, before |-> accumulator[w],
                      value |-> current_value, i |-> i[w], srd |-> 0]
    /\ trace' = [trace EXCEPT ![w] = Append(@, <<"step", i[w]>>)]
    /\ i' = [i EXCEPT ![w] = @ + 1]
    /\ UNCHANGED <<EI, EO, shape_reduce_dim, input, output, pc, writers>>
    /\ UNCHANGED processorVars

\* assign_naive(output, accumulator, srd) run by worker w.
Assign(w, srd) ==
    /\ output' = assign_naive(output, accumulator[w], srd, ABSOLUTE_POS(w), EO)
    /\ writers' = [p \in DOMAIN writers |->
                     IF Len(output'[p]) > Len(output[p])
                     THEN writers[p] \cup {w}
                     ELSE writers[p]]
    /\ pc' = [pc EXCEPT ![w] = "done"]
    /\ trace' = [trace EXCEPT ![w] = Append(@, <<"finalize", srd>>)]
    /\ last' = [op |-> "assign", w |-> w, before |-> accumulator[w],
                value |-> 0, i |-> 0, srd |-> srd]
    /\ UNCHANGED <<EI, EO, shape_reduce_dim, input, accumulator, i>>
    /\ UNCHANGED processorVars

\* Finalizes without waiting for the end of the loop.
Finalize_early(w) ==
    /\ pc[w] = "loop"
    /\ Assign(w, shape_reduce_dim)

\* Finalizes only once every worker of a lower position has finished.
Finalize_in_order(w) ==
    /\ pc[w] = "loop"
    /\ i[w] = shape_reduce_dim
    /\ \A v \in Workers : v < w => pc[v] = "done"
    /\ Assign(w, shape_reduce_dim)

\* After the loop: assign_naive(output, accumulator, shape_reduce_dim).
Finalize(w) ==
    /\ pc[w] = "loop"
    /\ i[w] = shape_reduce_dim
    /\ Assign(w, shape_reduce_dim)

Next ==
    \E w \in Workers :
        \/ Initialize(w)
        \/ Step(w)
        \/ Finalize(w)

Spec == Init /\ [][Next]_vars

\* The steps of worker w.
Worker(w) ==
    /\ w \in Workers
    /\ (Initialize(w) \/ Step(w) \/ Finalize(w))

\* Every launched worker is scheduled: a worker that can take a step
\* eventually takes one.
SpecFair == Spec /\ \A w \in 0 .. MaxWorkers - 1 : WF_vars(Worker(w))

(* ------------- the three functions called with any arguments ---------- *)

\* Index arguments around the limits of the output element types.
IndexSamples == {0, 1, 127, 128, 255, 256, 32767, 32768}

\* Sizes of the reduce dimension passed to assign_naive.
DimSamples == {0, 1, MaxCells}

\* Two accumulators, no input tensor: every call passes its own arguments.
InitCall ==
    /\ EI \in InTypes
    /\ EO \in OutTypes
    /\ Launch(2, 0, [w \in 0 .. 1 |-> <<>>])
    /\ NoProcessor

\* One inner_loop_naive(&mut accumulator, v, idx) on the freshly initialized
\* accumulator, for any value and any index.
StepCall(w, v, idx) ==
    /\ pc[w] = "loop"
    /\ i[w] = 0
    /\ accumulator' = [accumulator EXCEPT ![w] = inner_loop_naive(@, v, idx)]
    /\ last' = [op |-> "step", w |-> w, before |-> accumulator[w],
                value |-> v, i |-> idx, srd |-> 0]
    /\ i' = [i EXCEPT ![w] = @ + 1]
    /\ UNCHANGED <<EI, EO, shape_reduce_dim, input, output, pc, writers, trace>>
    /\ UNCHANGED processorVars

\* assign_naive(output, accumulator, srd) for any size of the reduce dimension.
AssignCall(w, srd) ==
    /\ pc[w] = "loop"
    /\ Assign(w, srd)

NextCall ==
    \E w \in Workers :
        \/ Initialize(w)
        \/ \E v \in Values(EI), idx \in IndexSamples : StepCall(w, v, idx)
        \/ \E srd \in DimSamples : AssignCall(w, srd)

SpecCall == InitCall /\ [][NextCall]_vars

(* ----------------------- the event processor -------------------------- *)

\* LearnerItem<T>: the payload and the iteration it was processed at.
LearnerItems == [item : 1 .. MaxItem, iteration : {1, 2}]

\* impl From<&LearnerItem<T>> for TrainingProgress
TrainingProgress(item) == [iteration |-> item.iteration]

\* impl From<&LearnerItem<T>> for MetricMetadata
MetricMetadata(item) == [iteration |-> item.iteration]

\* Adaptor::adapt: the metric's input made out of the item's payload.
adapt(x) == <<"adapted", x>>

\* A metric keeps the inputs it was updated with since it was last cleared.
\* Metric::update returns the entry that describes them.
metric_update(m, metric_input, metadata) ==
    LET seen == Append(m.seen, metric_input)
    IN [metric |-> [m EXCEPT !.seen = seen],
        entry |-> [name |-> m.name, serialize |-> seen,
                   iteration |-> metadata.iteration]]

\* Numeric::value: the value of what the metric holds now.
metric_value(m) == m.seen

\* Metric::clear
metric_clear(m) == [m EXCEPT !.seen = <<>>]

\* MetricWrapper::new(metric)
MetricWrapper(list, k) == [name |-> <<list, k>>, seen |-> <<>>]

\* One call made by a handler on a metric, the renderer or the client.
Call(target, op, kind, name, serialize, value, n) ==
    [target |-> target, op |-> op, kind |-> kind, name |-> name,
     serialize |-> serialize, value |-> value, n |-> n]

MetricCall(op, m) == Call("metric", op, "", m.name, <<>>, <<>>, 0)

\* renderer.update_*(MetricState::Generic(entry))
RenderGeneric(op, e) ==
    Call("renderer", op, "Generic", e.name, e.serialize, <<>>, e.iteration)

\* renderer.update_*(MetricState::Numeric(entry, value))
RenderNumeric(op, e, v) ==
    Call("renderer", op, "Numeric", e.name, e.serialize, v, e.iteration)

\* renderer.render_*(progress)
Render(op, progress) ==
    Call("renderer", op, "", <<"", 0>>, <<>>, <<>>, progress.iteration)

\* client.add_event_*(Event::EndEpoch(epoch))
SendEndEpoch(op, epoch) ==
    Call("client", op, "EndEpoch", <<"", 0>>, <<>>, <<>>, epoch)

\* Reads the value before it updates the metric.
NumericMetricUpdater_update_stale(m, item, metadata) ==
    LET numeric == metric_value(m)
        r == metric_update(m, adapt(item.item), metadata)
    IN [metric |-> r.metric, entry |-> r.entry, value |-> numeric]

\* impl NumericMetricUpdater<T> for MetricWrapper<M>: update
NumericMetricUpdater_update(m, item, metadata) ==
    LET r == metric_update(m, adapt(item.item), metadata)
        numeric == metric_value(r.metric)
    IN [metric |-> r.metric, entry |-> r.entry, value |-> numeric]

\* impl MetricUpdater<T> for MetricWrapper<M>: update
MetricUpdater_update(m, item, metadata) ==
    LET r == metric_update(m, adapt(item.item), metadata)
    IN [metric |-> r.metric, entry |-> r.entry]

\* MetricWrapper::clear
MetricWrapper_clear(m) == metric_clear(m)

\* The fields of the processor the handlers work on.
Self ==
    [train |-> train, valid |-> valid,
     train_numeric |-> train_numeric, valid_numeric |-> valid_numeric]

\* Both loops of an update: the generic metrics, then the numeric ones.
\* Gives the metrics after the loops, the MetricsUpdate and the calls made.
UpdateLoops(generic, numeric, item, metadata) ==
    LET g == [k \in 1 .. Len(generic) |->
                 MetricUpdater_update(generic[k], item, metadata)]
        n == [k \in 1 .. Len(numeric) |->
                 NumericMetricUpdater_update(numeric[k], item, metadata)]
    IN [generic |-> [k \in 1 .. Len(g) |-> g[k].metric],
        numeric |-> [k \in 1 .. Len(n) |-> n[k].metric],
        update |-> [entries |-> [k \in 1 .. Len(g) |-> g[k].entry],
                    entries_numeric |->
                        [k \in 1 .. Len(n) |-> <<n[k].entry, n[k].value>>]],
        calls |-> [k \in 1 .. Len(generic) |-> MetricCall("update", generic[k])]
                  \o [k \in 1 .. Len(numeric) |->
                         MetricCall("update", numeric[k])]]

\* fn update_train(&mut self, item, metadata) -> MetricsUpdate
update_train(self, item, metadata) ==
    LET r == UpdateLoops(self.train, self.train_numeric, item, metadata)
    IN [self |-> [self EXCEPT !.train = r.generic,
                              !.train_numeric = r.numeric],
        update |-> r.update, calls |-> r.calls]

\* fn update_valid(&mut self, item, metadata) -> MetricsUpdate
update_valid(self, item, metadata) ==
    LET r == UpdateLoops(self.valid, self.valid_numeric, item, metadata)
    IN [self |-> [self EXCEPT !.valid = r.generic,
                              !.valid_numeric = r.numeric],
        update |-> r.update, calls |-> r.calls]

\* Both loops of an epoch end: every generic metric cleared, then every
\* numeric one.
ClearCalls(generic, numeric) ==
    [k \in 1 .. Len(generic) |-> MetricCall("clear", generic[k])]
        \o [k \in 1 .. Len(numeric) |-> MetricCall("clear", numeric[k])]

ClearAll(metrics) == [k \in 1 .. Len(metrics) |-> MetricWrapper_clear(metrics[k])]

\* Clears the generic training metrics only.
end_epoch_train_generic_only(self, epoch) ==
    [self |-> [self EXCEPT !.train = ClearAll(self.train)],
     calls |-> ClearCalls(self.train, <<>>)
               \o << SendEndEpoch("add_event_train", epoch + 1) >>]

\* Clears the validation metrics as well.
end_epoch_train_clears_valid(self, epoch) ==
    [self |-> [self EXCEPT !.train = ClearAll(self.train),
                           !.train_numeric = ClearAll(self.train_numeric),
                           !.valid = ClearAll(self.valid),
                           !.valid_numeric = ClearAll(self.valid_numeric)],
     calls |-> ClearCalls(self.train, self.train_numeric)
               \o ClearCalls(self.valid, self.valid_numeric)
               \o << SendEndEpoch("add_event_train", epoch + 1) >>]

\* fn end_epoch_train(&mut self, epoch)
end_epoch_train(self, epoch) ==
    [self |-> [self EXCEPT !.train = ClearAll(self.train),
                           !.train_numeric = ClearAll(self.train_numeric)],
     calls |-> ClearCalls(self.train, self.train_numeric)
               \o << SendEndEpoch("add_event_train", epoch + 1) >>]

\* fn end_epoch_valid(&mut self, epoch)
end_epoch_valid(self, epoch) ==
    [self |-> [self EXCEPT !.valid = ClearAll(self.valid),
                           !.valid_numeric = ClearAll(self.valid_numeric)],
     calls |-> ClearCalls(self.valid, self.valid_numeric)
               \o << SendEndEpoch("add_event_valid", epoch + 1) >>]

\* Renders before the numeric entries have reached the renderer.
RenderCalls_render_early(update_op, render_op, update, progress) ==
    [k \in 1 .. Len(update.entries) |->
        RenderGeneric(update_op, update.entries[k])]
    \o << Render(render_op, progress) >>
    \o [k \in 1 .. Len(update.entries_numeric) |->
           RenderNumeric(update_op, update.entries_numeric[k][1],
                         update.entries_numeric[k][2])]

\* The renderer calls of a processed item: one update per entry, the
\* generic entries first, then render.
RenderCalls(update_op, render_op, update, progress) ==
    [k \in 1 .. Len(update.entries) |->
        RenderGeneric(update_op, update.entries[k])]
    \o [k \in 1 .. Len(update.entries_numeric) |->
           RenderNumeric(update_op, update.entries_numeric[k][1],
                         update.entries_numeric[k][2])]
    \o << Render(render_op, progress) >>

\* fn add_event_train(&mut self, event)
add_event_train(self, ev) ==
    IF ev.kind = "ProcessedItem"
    THEN LET progress == TrainingProgress(ev.item)
             metadata == MetricMetadata(ev.item)
             u == update_train(self, ev.item, metadata)
         IN [self |-> u.self,
             calls |-> u.calls
                       \o RenderCalls("update_train", "render_train",
                                      u.update, progress)]
    ELSE end_epoch_train(self, ev.epoch)

\* fn add_event_valid(&mut self, event)
add_event_valid(self, ev) ==
    IF ev.kind = "ProcessedItem"
    THEN LET progress == TrainingProgress(ev.item)
             metadata == MetricMetadata(ev.item)
             u == update_valid(self, ev.item, metadata)
         IN [self |-> u.self,
             calls |-> u.calls
                       \o RenderCalls("update_valid", "render_valid",
                                      u.update, progress)]
    ELSE end_epoch_valid(self, ev.epoch)

\* The events the learner sends for one phase.
Events(phase) ==
    [phase : {phase}, kind : {"ProcessedItem"}, item : LearnerItems, epoch : {0}]
    \cup [phase : {phase}, kind : {"EndEpoch"}, item : {<<>>},
          epoch : 0 .. MaxEpoch]

\* No reduce request takes part in the processing of events.
NoKernel ==
    /\ EI = "int"
    /\ EO = [signed |-> TRUE, bits |-> 8]
    /\ Launch(1, 0, [w \in 0 .. 0 |-> <<>>])

\* FullEventProcessorBuilder: register_* any number of times, then build.
InitProcessor ==
    /\ NoKernel
    /\ \E nt, nv, ntn, nvn \in 0 .. MaxMetrics :
          /\ nt + nv + ntn + nvn <= MaxMetrics
          /\ train = [k \in 1 .. nt |-> MetricWrapper("train", k)]
          /\ valid = [k \in 1 .. nv |-> MetricWrapper("valid", k)]
          /\ train_numeric = [k \in 1 .. ntn |-> MetricWrapper("train_numeric", k)]
          /\ valid_numeric = [k \in 1 .. nvn |-> MetricWrapper("valid_numeric", k)]
    /\ event = NoProcessorEvent
    /\ calls = <<>>
    /\ since = [train |-> <<>>, valid |-> <<>>]

\* The items of the phase since its last epoch end, the event included.
SinceAfter(ev) ==
    IF ev.kind = "ProcessedItem"
    THEN [since EXCEPT ![ev.phase] = Append(@, ev.item.item)]
    ELSE [since EXCEPT ![ev.phase] = <<>>]

\* The handler has run: its effect on the processor and the calls it made.
Handled(ev, r) ==
    /\ ev.kind = "ProcessedItem" => Len(since[ev.phase]) < MaxBatch
    /\ train' = r.self.train
    /\ valid' = r.self.valid
    /\ train_numeric' = r.self.train_numeric
    /\ valid_numeric' = r.self.valid_numeric
    /\ calls' = r.calls
    /\ event' = ev
    /\ since' = SinceAfter(ev)
    /\ UNCHANGED kernelVars

\* EventProcessor::add_event_train(event)
AddEventTrain(ev) == Handled(ev, add_event_train(Self, ev))

\* EventProcessor::add_event_valid(event)
AddEventValid(ev) == Handled(ev, add_event_valid(Self, ev))

NextProcessor ==
    \/ \E ev \in Events("train") : AddEventTrain(ev)
    \/ \E ev \in Events("valid") : AddEventValid(ev)

SpecProcessor == InitProcessor /\ [][NextProcessor]_vars

(* ------------------------------ claims -------------------------------- *)

Done(w) == pc[w] = "done"

\* The content of output position p once it has been written.
Written(p) == output[p][Len(output[p])]

\* k is the lowest position of row holding its maximum value.
IsLowestMax(row, k) ==
    /\ \A j \in DOMAIN row : Le(row[j], row[k])
    /\ \A j \in DOMAIN row : j < k => row[j] # row[k]

\* C1: for every non-empty sequence scanned in ascending order, the index
\* written is the lowest index at which the maximum of the sequence occurs.
C1_LowestIndexOfMaximum ==
    \A w \in Workers :
        (Done(w) /\ shape_reduce_dim >= 1) =>
            \A k \in DOMAIN input[w] :
                IsLowestMax(input[w], k) => Written(w) = k - 1

\* C2: inner_loop_naive replaces the accumulator with (current_value, i)
\* exactly when current_value > max; otherwise, equality included, the
\* stored maximum and the stored index are both unchanged.
C2_ReplaceIffStrictlyGreater ==
    last.op = "step" =>
        LET after == accumulator[last.w]
        IN /\ Gt(last.value, last.before[1]) => after = <<last.value, last.i>>
           /\ ~Gt(last.value, last.before[1]) => after = last.before
           /\ Le(last.value, last.before[1]) => after = last.before

\* A step whose value equals the stored maximum at another index.
C2_Witness ==
    /\ last.op = "step"
    /\ last.value = last.before[1]
    /\ last.i # last.before[2]
    /\ accumulator[last.w] = last.before

\* The lowest finite value among the sampled values of element type t.
LowestFinite(t) ==
    CHOOSE m \in FiniteValues(t) : \A x \in FiniteValues(t) : m <= x

\* The last action was the first inner_loop_naive call on an accumulator
\* that initialize_naive has just returned.
FirstStep == last.op = "step" /\ i[last.w] = 1

RECURSIVE Scan(_, _, _)
\* The accumulator of one worker run alone over the first n values of row:
\* initialize_naive, then inner_loop_naive at 0, 1, ..., n - 1.
Scan(t, row, n) ==
    IF n = 0
    THEN initialize_naive(t)
    ELSE inner_loop_naive(Scan(t, row, n - 1), row[n], n - 1)

\* C4: under every interleaving of the workers, each worker's accumulator is
\* the one it would have running alone, and the value finally written at
\* each output position is the one a lone sequential run over that
\* position's slice produces, so the output is a function of the input.
C4_SameAsRunAlone ==
    \A w \in Workers :
        /\ pc[w] = "start" => accumulator[w] = NoAccumulator
        /\ pc[w] # "start" => accumulator[w] = Scan(EI, input[w], i[w])
        /\ Done(w) =>
              output[w] =
                  << cast_from(EO, Scan(EI, input[w], shape_reduce_dim)[2]) >>

\* Two workers have finished scans of two elements with different results.
C4_Witness ==
    /\ Cardinality(Workers) = 2
    /\ \A w \in Workers : Done(w)
    /\ Written(0) # Written(1)
    /\ shape_reduce_dim = 2

\* The output positions worker w has written.
WrittenBy(w) == {p \in DOMAIN writers : w \in writers[p]}

\* C5: a worker writes exactly one output element, at its own position;
\* every position is written once at most, by its own worker only, and is
\* untouched until that worker's assign_naive.
C5_OneWriterPerPosition ==
    \A w \in Workers :
        /\ Len(output[w]) <= 1
        /\ writers[w] \subseteq {w}
        /\ Done(w) => (Len(output[w]) = 1 /\ WrittenBy(w) = {ABSOLUTE_POS(w)})
        /\ ~Done(w) => (Len(output[w]) = 0 /\ WrittenBy(w) = {})

\* One worker has written its position while the other has not finished.
C5_Witness ==
    /\ Cardinality(Workers) = 2
    /\ Done(1) /\ ~Done(0)
    /\ output[1] # <<>> /\ output[0] = <<>>

\* C6: with a reduce dimension of size 0 a worker makes no step, reaches
\* assign_naive with the seed (minimum value, 0) and writes index 0.
C6_EmptyDimensionWritesSeedIndex ==
    \A w \in Workers :
        (shape_reduce_dim = 0 /\ Done(w)) =>
            /\ trace[w] = << <<"initialize">>, <<"finalize", 0>> >>
            /\ accumulator[w] = <<LowestFinite(EI), 0>>
            /\ output[w] = <<0>>

\* A worker has finished a reduction over an empty dimension.
C6_Witness ==
    /\ shape_reduce_dim = 0
    /\ \E w \in Workers : Done(w) /\ last.op = "assign" /\ last.w = w

\* The size of the reduce dimension worker w passed to assign_naive.
SrdPassed(w) == trace[w][Len(trace[w])][2]

\* C7: assign_naive writes the cast of the stored index only: two
\* accumulators with the same index write the same value, whatever their
\* maximum values and whatever shape_reduce_dim each call is given.
C7_OnlyIndexIsWritten ==
    \A w1, w2 \in Workers :
        (Done(w1) /\ Done(w2) /\ accumulator[w1][2] = accumulator[w2][2]) =>
            Written(w1) = Written(w2)

\* Both calls made: same index, different maxima, different sizes.
C7_Witness ==
    /\ Done(0) /\ Done(1)
    /\ accumulator[0][2] = accumulator[1][2]
    /\ accumulator[0][2] > 0
    /\ accumulator[0][1] # accumulator[1][1]
    /\ SrdPassed(0) # SrdPassed(1)

\* C8: the cast of the index is defined for every index (the value written
\* is a value of the output type), and an index within the range of the
\* output type is written unchanged: equal to the index, never negative.
C8_IndexCastExact ==
    \A w \in Workers :
        Done(w) =>
            /\ Written(w) \in MinOut(EO) .. MaxOut(EO)
            /\ accumulator[w][2] <= MaxOut(EO) =>
                  (Written(w) = accumulator[w][2] /\ Written(w) >= 0)

\* The largest index a signed output type can hold has been written.
C8_Witness ==
    \E w \in Workers :
        /\ Done(w)
        /\ EO.signed
        /\ accumulator[w][2] = MaxOut(EO)
        /\ Written(w) = MaxOut(EO)

\* The calls worker w makes over a reduce dimension of size d.
Schedule(d) ==
    << <<"initialize">> >>
        \o [k \in 1 .. d |-> <<"step", k - 1>>]
        \o << <<"finalize", d>> >>

IsPrefix(s, t) ==
    /\ Len(s) <= Len(t)
    /\ \A k \in 1 .. Len(s) : s[k] = t[k]

\* C9: each worker calls initialize, then one step per index 0, 1, ...,
\* shape_reduce_dim - 1 in ascending order, then finalize exactly once;
\* finalize never precedes the last step and nothing follows finalize.
C9_InitializeStepsFinalize ==
    \A w \in Workers :
        /\ IsPrefix(trace[w], Schedule(shape_reduce_dim))
        /\ Done(w) <=> trace[w] = Schedule(shape_reduce_dim)
        /\ pc[w] = "start" <=> trace[w] = <<>>
        /\ pc[w] = "loop" => Len(trace[w]) = i[w] + 1

\* A worker has finished a scan of at least three elements.
C9_Witness ==
    \E w \in Workers :
        /\ Done(w)
        /\ shape_reduce_dim >= 3
        /\ Len(trace[w]) = shape_reduce_dim + 2

\* C10: no action of any worker modifies the input tensor.
C10_InputNeverModified == [][input' = input]_vars

\* Every worker has read its whole non-empty slice and finished.
C10_Witness ==
    /\ shape_reduce_dim >= 1
    /\ Cardinality(Workers) = 2
    /\ \A w \in Workers : Done(w)

\* C11: under weak fairness on every worker, every worker eventually reaches
\* the state after its single output write, and a worker that has not
\* finished can always take its next step whatever the other workers do.
C11_EveryWorkerCompletes ==
    /\ [](\A w \in Workers : ~Done(w) => ENABLED Worker(w))
    /\ <>(\A w \in Workers : Done(w) /\ Len(output[w]) = 1)

\* Two workers have both completed non-empty scans.
C11_Witness ==
    /\ Cardinality(Workers) = 2
    /\ shape_reduce_dim >= 1
    /\ \A w \in Workers : Done(w) /\ Len(output[w]) = 1
    /\ last.op = "assign"

(* ----------------------- claims: event processor ---------------------- *)

\* The metrics registered for a phase, and the names of its entry points.
Generic(phase) == IF phase = "train" THEN train ELSE valid
Numeric(phase) == IF phase = "train" THEN train_numeric ELSE valid_numeric
AddEventOp(phase) ==
    IF phase = "train" THEN "add_event_train" ELSE "add_event_valid"
UpdateOp(phase) == IF phase = "train" THEN "update_train" ELSE "update_valid"
RenderOp(phase) == IF phase = "train" THEN "render_train" ELSE "render_valid"
Other(phase) == IF phase = "train" THEN "valid" ELSE "train"

\* The positions of the calls of the latest handler that satisfy P.
CallsWhere(P(_)) == {k \in DOMAIN calls : P(calls[k])}

\* C12: for every processed item, the metrics update that update_train
\* (update_valid) computed is sent to the event store client.
C12_UpdateSentToStore ==
    event.kind = "ProcessedItem" =>
        \E k \in DOMAIN calls :
            /\ calls[k].target = "client"
            /\ calls[k].op = AddEventOp(event.phase)
            /\ calls[k].kind = "MetricsUpdate"

\* C13: on the end of epoch e of a phase, every metric registered for the
\* phase, generic and numeric, is cleared exactly once; then exactly one
\* EndEpoch(e + 1) is sent to the store on the phase's channel; the renderer
\* is not called.
C13_EndEpochClearsThenSends ==
    event.kind = "EndEpoch" =>
        LET ms == Generic(event.phase) \o Numeric(event.phase)
            IsClear(c) == c.target = "metric" /\ c.op = "clear"
            IsClient(c) == c.target = "client"
            IsRenderer(c) == c.target = "renderer"
        IN /\ \A j \in DOMAIN ms :
                 /\ ms[j].seen = <<>>
                 /\ Cardinality({k \in DOMAIN calls :
                        IsClear(calls[k]) /\ calls[k].name = ms[j].name}) = 1
           /\ Cardinality(CallsWhere(IsClear)) = Len(ms)
           /\ Cardinality(CallsWhere(IsClient)) = 1
           /\ CallsWhere(IsRenderer) = {}
           /\ Len(calls) = Len(ms) + 1
           /\ LET c == calls[Len(calls)]
              IN /\ c.target = "client"
                 /\ c.op = AddEventOp(event.phase)
                 /\ c.kind = "EndEpoch"
                 /\ c.n = event.epoch + 1

\* A training epoch has ended with generic and numeric metrics registered.
C13_Witness ==
    /\ event.kind = "EndEpoch"
    /\ event.phase = "train"
    /\ event.epoch = MaxEpoch
    /\ Len(train) >= 1
    /\ Len(train_numeric) >= 1
    /\ Len(calls) = Len(train) + Len(train_numeric) + 1

\* C14: on a processed item of a phase, every metric of the phase is updated
\* exactly once, generic ones in registration order then numeric ones; the
\* renderer then gets one update per entry, the Generic entries in
\* registration order before the Numeric ones, and last exactly one render
\* call of the phase.
C14_UpdateThenRenderInOrder ==
    event.kind = "ProcessedItem" =>
        LET g == Generic(event.phase)
            n == Numeric(event.phase)
            ng == Len(g)
            nn == Len(n)
        IN /\ Len(calls) = 2 * (ng + nn) + 1
           /\ \A k \in 1 .. ng :
                 /\ calls[k].target = "metric"
                 /\ calls[k].op = "update"
                 /\ calls[k].name = g[k].name
                 /\ calls[ng + nn + k].target = "renderer"
                 /\ calls[ng + nn + k].op = UpdateOp(event.phase)
                 /\ calls[ng + nn + k].kind = "Generic"
                 /\ calls[ng + nn + k].name = g[k].name
           /\ \A k \in 1 .. nn :
                 /\ calls[ng + k].target = "metric"
                 /\ calls[ng + k].op = "update"
                 /\ calls[ng + k].name = n[k].name
                 /\ calls[2 * ng + nn + k].target = "renderer"
                 /\ calls[2 * ng + nn + k].op = UpdateOp(event.phase)
                 /\ calls[2 * ng + nn + k].kind = "Numeric"
                 /\ calls[2 * ng + nn + k].name = n[k].name
           /\ calls[Len(calls)].target = "renderer"
           /\ calls[Len(calls)].op = RenderOp(event.phase)
           /\ calls[Len(calls)].n = event.item.iteration

\* An item processed with two generic metrics and a numeric one.
C14_Witness ==
    /\ event.kind = "ProcessedItem"
    /\ event.phase = "train"
    /\ Len(train) = 2
    /\ Len(train_numeric) = 1
    /\ Len(calls) = 7

\* The call c belongs to the given phase.
OfPhase(c, phase) ==
    \/ c.target = "metric" /\ c.name[1] \in {phase, IF phase = "train"
                                                     THEN "train_numeric"
                                                     ELSE "valid_numeric"}
    \/ c.target = "renderer" /\ c.op \in {UpdateOp(phase), RenderOp(phase)}
    \/ c.target = "client" /\ c.op = AddEventOp(phase)

\* C15: an event of one phase never updates or clears a metric of the other
\* phase, never calls the renderer's methods of the other phase and never
\* sends on the other phase's channel of the store.
C15_PhaseIsolation ==
    [][ /\ event'.phase = "train" =>
              (valid' = valid /\ valid_numeric' = valid_numeric)
        /\ event'.phase = "valid" =>
              (train' = train /\ train_numeric' = train_numeric)
        /\ \A k \in DOMAIN calls' :
              /\ OfPhase(calls'[k], event'.phase)
              /\ ~OfPhase(calls'[k], Other(event'.phase)) ]_vars

\* A training epoch has ended while validation metrics hold items.
C15_Witness ==
    /\ event.kind = "EndEpoch"
    /\ event.phase = "train"
    /\ Len(train) >= 1
    /\ Len(valid) >= 1
    /\ since.valid # <<>>
    /\ \A k \in DOMAIN valid : Len(valid[k].seen) = Len(since.valid)

\* C16: during a worker's ascending scan, after k >= 1 steps the stored
\* index is below k, the stored maximum is >= every value processed so far
\* and the input value at the stored index equals the stored maximum; so the
\* index written for a non-empty reduce dimension is below shape_reduce_dim.
C16_AccumulatorInvariant ==
    \A w \in Workers :
        /\ (pc[w] # "start" /\ i[w] >= 1) =>
              /\ accumulator[w][2] < i[w]
              /\ \A j \in 1 .. i[w] : Le(input[w][j], accumulator[w][1])
              /\ input[w][accumulator[w][2] + 1] = accumulator[w][1]
        /\ (Done(w) /\ shape_reduce_dim >= 1) => Written(w) < shape_reduce_dim

\* C17: the value paired with a numeric metric's entry is read after the
\* metric was updated with the item, so the value reported for a processed
\* item is that of exactly the items of the phase since its last epoch end
\* (or since the start), the current item included.
C17_NumericValueIncludesItem ==
    event.kind = "ProcessedItem" =>
        \A k \in DOMAIN calls :
            (calls[k].target = "renderer" /\ calls[k].kind = "Numeric") =>
                /\ calls[k].value =
                      [j \in 1 .. Len(since[event.phase]) |->
                          adapt(since[event.phase][j])]
                /\ calls[k].value[Len(calls[k].value)] = adapt(event.item.item)

\* A second item of a phase reported by a numeric metric.
C17_Witness ==
    /\ event.kind = "ProcessedItem"
    /\ event.phase = "valid"
    /\ Len(valid_numeric) >= 1
    /\ Len(since.valid) = 2
    /\ since.valid[1] # since.valid[2]
    /\ \E k \in DOMAIN calls :
          calls[k].kind = "Numeric" /\ Len(calls[k].value) = 2

====
